---- MODULE Spec2Model ----
(***************************************************************************)
(* Model of src/src/chart.c: the chart object (series list, axis ids,      *)
(* series counter), its construction, chart_add_series, lxw_chart_free and *)
(* the XML assembly pass lxw_chart_assemble_xml_file.                      *)
(*                                                                         *)
(* The output file is a sequence of XML events.  Every writer function of  *)
(* chart.c is an operator from the chart record (self) to the chart record *)
(* after the call, with the events it wrote appended to self.file.         *)
(***************************************************************************)
EXTENDS Integers, Sequences, FiniteSets, TLC

\* ------------------------------------------------------------------ bounds
\* Most series one chart holds.
MaxSeries == 2
\* Most assembly passes over one chart.
MaxPasses == 2
\* Chart ids the owner assigns are 0..MaxId.
MaxId == 1
\* Most calls of one run in which an allocation fails.
MaxFailures == 1

\* --------------------------------------------------------- program values
\* The base of the axis ids (chart.c:194).
CHART_AXIS_BASE == 50010000
\* uint16_t arithmetic (series_index).
UInt16 == 2 ^ 16

\* The null pointer, among the string pointers.
NULL == "NULL"
\* Range strings and sheet names the caller passes in a series descriptor.
Ranges == {"Sheet1!$A$1:$A$3", "Sheet1!$B$1:$B$3"}
Sheetnames == {"Sheet1"}
\* What the caller passes as user_series: a pointer to a descriptor
\* (lxw_chart_series.values) or a null pointer.
NullSeries == [ptr |-> NULL, range |-> NULL, sheetname |-> NULL]
UserSeries == [ptr : {"series"}, range : Ranges, sheetname : Sheetnames] \cup {NullSeries}
\* The allocations of one chart_add_series call that fail (TRUE: it fails): calloc
\* of the node, lxw_strdup of the range and of the sheet name.  After a failed
\* calloc the call makes no other allocation.
NoFailure == [node |-> FALSE, range |-> FALSE, sheetname |-> FALSE]
MemOutcomes == {m \in [node : BOOLEAN, range : BOOLEAN, sheetname : BOOLEAN] :
                    m.node => (~m.range /\ ~m.sheetname)}
\* The callocs of one lxw_chart_new call that fail.
NewOutcomes == [chart : BOOLEAN, list : BOOLEAN]
\* The heap: the number of outstanding allocations of each kind.
EmptyHeap == [chart |-> 0, list |-> 0, node |-> 0, str |-> 0]

VARIABLES
    self,           \* the chart pointer: "NULL", "live" or "freed"
    id,             \* chart->id
    axis_id_1,      \* chart->axis_id_1
    axis_id_2,      \* chart->axis_id_2
    series_index,   \* chart->series_index
    series,         \* chart->series: the STAILQ of series nodes, head first
    file,           \* the events written to chart->file by the last assembly
    heap,           \* outstanding allocations
    last,           \* the last call: operation, argument, allocation outcome, result
    passes,         \* history: the number of assembly passes made
    added,          \* history: the descriptors of the calls that returned 0
    failures,       \* history: the number of calls in which an allocation failed
    id_first        \* history: chart->id at the first assembly pass

vars == <<self, id, axis_id_1, axis_id_2, series_index, series, file, heap,
          last, passes, added, failures, id_first>>

\* ------------------------------------------------- xmlwriter primitives
\* One event of the output: its kind, the tag, the attributes and the text.
Event(k, tag, attrs, data) == [k |-> k, tag |-> tag, attrs |-> attrs, data |-> data]
NoAttributes == <<>>

lxw_xml_declaration(f) == Append(f, Event("decl", "xml", NoAttributes, ""))
lxw_xml_start_tag(f, tag, attrs) == Append(f, Event("start", tag, attrs, ""))
lxw_xml_end_tag(f, tag) == Append(f, Event("end", tag, NoAttributes, ""))
lxw_xml_empty_tag(f, tag, attrs) == Append(f, Event("empty", tag, attrs, ""))
lxw_xml_data_element(f, tag, data, attrs) == Append(f, Event("data", tag, attrs, data))

\* LXW_PUSH_ATTRIBUTES_STR and LXW_PUSH_ATTRIBUTES_INT: the latter formats the
\* number in decimal.
LXW_PUSH_ATTRIBUTES_STR(attrs, key, value) == Append(attrs, <<key, value>>)
LXW_PUSH_ATTRIBUTES_INT(attrs, key, value) == Append(attrs, <<key, ToString(value)>>)

\* A tag with the single attribute val="...".
ValAttribute(value) == LXW_PUSH_ATTRIBUTES_STR(NoAttributes, "val", value)
IntAttribute(value) == LXW_PUSH_ATTRIBUTES_INT(NoAttributes, "val", value)

\* ------------------------------------------------------- XML functions
_chart_xml_declaration(c) == [c EXCEPT !.file = lxw_xml_declaration(@)]

_chart_write_chart_space(c) ==
    LET a1 == LXW_PUSH_ATTRIBUTES_STR(NoAttributes, "xmlns:c",
                  "http://schemas.openxmlformats.org/drawingml/2006/chart")
        a2 == LXW_PUSH_ATTRIBUTES_STR(a1, "xmlns:a",
                  "http://schemas.openxmlformats.org/drawingml/2006/main")
        a3 == LXW_PUSH_ATTRIBUTES_STR(a2, "xmlns:r",
                  "http://schemas.openxmlformats.org/officeDocument/2006/relationships")
    IN  [c EXCEPT !.file = lxw_xml_start_tag(@, "c:chartSpace", a3)]

_chart_write_lang(c) ==
    [c EXCEPT !.file = lxw_xml_empty_tag(@, "c:lang", ValAttribute("en-US"))]

_chart_write_layout(c) ==
    [c EXCEPT !.file = lxw_xml_empty_tag(@, "c:layout", NoAttributes)]

_chart_write_grouping(c) ==
    [c EXCEPT !.file = lxw_xml_empty_tag(@, "c:grouping", ValAttribute("clustered"))]

_chart_write_idx(c, index) ==
    [c EXCEPT !.file = lxw_xml_empty_tag(@, "c:idx", IntAttribute(index))]

_chart_write_order(c, index) ==
    [c EXCEPT !.file = lxw_xml_empty_tag(@, "c:order", IntAttribute(index))]

\* A slip of _chart_add_axis_ids: the chart id is left out of the sum.
_chart_add_axis_ids_no_id(c) ==
    LET chart_id == CHART_AXIS_BASE
        axis_count == 1
    IN  [c EXCEPT !.axis_id_1 = chart_id + axis_count,
                  !.axis_id_2 = chart_id + axis_count]

\* Add unique ids for primary or secondary axes.  The sums are uint32_t; with the
\* ids 0..MaxId they stay far below 2^32 and never wrap.
_chart_add_axis_ids(c) ==
    LET chart_id == CHART_AXIS_BASE + c.id
        axis_count == 1
    IN  [c EXCEPT !.axis_id_1 = chart_id + axis_count,
                  !.axis_id_2 = chart_id + axis_count]

_chart_write_axis_id(c, axis_id) ==
    [c EXCEPT !.file = lxw_xml_empty_tag(@, "c:axId", IntAttribute(axis_id))]

\* Two slips of _chart_write_axis_ids: the ids are never allocated; the ids are
\* allocated again on every pass.
_chart_write_axis_ids_never_added(c) ==
    _chart_write_axis_id(_chart_write_axis_id(c, c.axis_id_1), c.axis_id_2)

_chart_write_axis_ids_always_added(c) ==
    LET c1 == _chart_add_axis_ids(c)
    IN  _chart_write_axis_id(_chart_write_axis_id(c1, c1.axis_id_1), c1.axis_id_2)

_chart_write_axis_ids(c) ==
    LET c1 == IF c.axis_id_1 = 0 THEN _chart_add_axis_ids(c) ELSE c
    IN  _chart_write_axis_id(_chart_write_axis_id(c1, c1.axis_id_1), c1.axis_id_2)

_chart_write_f(c, range) ==
    [c EXCEPT !.file = lxw_xml_data_element(@, "c:f", range, NoAttributes)]

_chart_write_num_ref(c, range) ==
    LET c1 == [c EXCEPT !.file = lxw_xml_start_tag(@, "c:numRef", NoAttributes)]
        c2 == _chart_write_f(c1, range)
    IN  [c2 EXCEPT !.file = lxw_xml_end_tag(@, "c:numRef")]

_chart_write_val(c, s) ==
    LET c1 == [c EXCEPT !.file = lxw_xml_start_tag(@, "c:val", NoAttributes)]
        c2 == _chart_write_num_ref(c1, s.range)
    IN  [c2 EXCEPT !.file = lxw_xml_end_tag(@, "c:val")]

\* uint16_t index = self->series_index++;
_chart_write_ser(c, s) ==
    LET index == c.series_index
        c0 == [c EXCEPT !.series_index = (index + 1) % UInt16]
        c1 == [c0 EXCEPT !.file = lxw_xml_start_tag(@, "c:ser", NoAttributes)]
        c2 == _chart_write_idx(c1, index)
        c3 == _chart_write_order(c2, index)
        c4 == _chart_write_val(c3, s)
    IN  [c4 EXCEPT !.file = lxw_xml_end_tag(@, "c:ser")]

_chart_write_orientation(c) ==
    [c EXCEPT !.file = lxw_xml_empty_tag(@, "c:orientation", ValAttribute("minMax"))]

_chart_write_scaling(c) ==
    LET c1 == [c EXCEPT !.file = lxw_xml_start_tag(@, "c:scaling", NoAttributes)]
        c2 == _chart_write_orientation(c1)
    IN  [c2 EXCEPT !.file = lxw_xml_end_tag(@, "c:scaling")]

_chart_write_axis_pos(c, position) ==
    [c EXCEPT !.file = lxw_xml_empty_tag(@, "c:axPos", ValAttribute(position))]

_chart_write_tick_lbl_pos(c) ==
    [c EXCEPT !.file = lxw_xml_empty_tag(@, "c:tickLblPos", ValAttribute("nextTo"))]

_chart_write_cross_axis(c, axis_id) ==
    [c EXCEPT !.file = lxw_xml_empty_tag(@, "c:crossAx", IntAttribute(axis_id))]

_chart_write_crosses(c) ==
    [c EXCEPT !.file = lxw_xml_empty_tag(@, "c:crosses", ValAttribute("autoZero"))]

_chart_write_auto(c) ==
    [c EXCEPT !.file = lxw_xml_empty_tag(@, "c:auto", ValAttribute("1"))]

_chart_write_lbl_algn(c) ==
    [c EXCEPT !.file = lxw_xml_empty_tag(@, "c:lblAlgn", ValAttribute("ctr"))]

_chart_write_lbl_offset(c) ==
    [c EXCEPT !.file = lxw_xml_empty_tag(@, "c:lblOffset", ValAttribute("100"))]

_chart_write_major_gridlines(c) ==
    [c EXCEPT !.file = lxw_xml_empty_tag(@, "c:majorGridlines", NoAttributes)]

_chart_write_num_fmt(c) ==
    LET a1 == LXW_PUSH_ATTRIBUTES_STR(NoAttributes, "formatCode", "General")
        a2 == LXW_PUSH_ATTRIBUTES_STR(a1, "sourceLinked", "1")
    IN  [c EXCEPT !.file = lxw_xml_empty_tag(@, "c:numFmt", a2)]

_chart_write_cross_between(c) ==
    [c EXCEPT !.file = lxw_xml_empty_tag(@, "c:crossBetween", ValAttribute("between"))]

_chart_write_legend_pos(c) ==
    [c EXCEPT !.file = lxw_xml_empty_tag(@, "c:legendPos", ValAttribute("r"))]

_chart_write_legend(c) ==
    LET c1 == [c EXCEPT !.file = lxw_xml_start_tag(@, "c:legend", NoAttributes)]
        c2 == _chart_write_legend_pos(c1)
        c3 == _chart_write_layout(c2)
    IN  [c3 EXCEPT !.file = lxw_xml_end_tag(@, "c:legend")]

_chart_write_plot_vis_only(c) ==
    [c EXCEPT !.file = lxw_xml_empty_tag(@, "c:plotVisOnly", ValAttribute("1"))]

_chart_write_header_footer(c) ==
    [c EXCEPT !.file = lxw_xml_empty_tag(@, "c:headerFooter", NoAttributes)]

_chart_write_page_margins(c) ==
    LET a1 == LXW_PUSH_ATTRIBUTES_STR(NoAttributes, "b", "0.75")
        a2 == LXW_PUSH_ATTRIBUTES_STR(a1, "l", "0.7")
        a3 == LXW_PUSH_ATTRIBUTES_STR(a2, "r", "0.7")
        a4 == LXW_PUSH_ATTRIBUTES_STR(a3, "t", "0.75")
        a5 == LXW_PUSH_ATTRIBUTES_STR(a4, "header", "0.3")
        a6 == LXW_PUSH_ATTRIBUTES_STR(a5, "footer", "0.3")
    IN  [c EXCEPT !.file = lxw_xml_empty_tag(@, "c:pageMargins", a6)]

_chart_write_page_setup(c) ==
    [c EXCEPT !.file = lxw_xml_empty_tag(@, "c:pageSetup", NoAttributes)]

_chart_write_print_settings(c) ==
    LET c1 == [c EXCEPT !.file = lxw_xml_start_tag(@, "c:printSettings", NoAttributes)]
        c2 == _chart_write_header_footer(c1)
        c3 == _chart_write_page_margins(c2)
        c4 == _chart_write_page_setup(c3)
    IN  [c4 EXCEPT !.file = lxw_xml_end_tag(@, "c:printSettings")]

\* Write the <c:catAx> element.
_chart_write_cat_axis(c) ==
    LET c1  == [c EXCEPT !.file = lxw_xml_start_tag(@, "c:catAx", NoAttributes)]
        c2  == _chart_write_axis_id(c1, c1.axis_id_1)
        c3  == _chart_write_scaling(c2)
        c4  == _chart_write_axis_pos(c3, "l")
        c5  == _chart_write_tick_lbl_pos(c4)
        c6  == _chart_write_cross_axis(c5, c5.axis_id_2)
        c7  == _chart_write_crosses(c6)
        c8  == _chart_write_auto(c7)
        c9  == _chart_write_lbl_algn(c8)
        c10 == _chart_write_lbl_offset(c9)
    IN  [c10 EXCEPT !.file = lxw_xml_end_tag(@, "c:catAx")]

\* Write the <c:valAx> element.
_chart_write_val_ax(c) ==
    LET c1  == [c EXCEPT !.file = lxw_xml_start_tag(@, "c:valAx", NoAttributes)]
        c2  == _chart_write_axis_id(c1, c1.axis_id_2)
        c3  == _chart_write_scaling(c2)
        c4  == _chart_write_axis_pos(c3, "b")
        c5  == _chart_write_major_gridlines(c4)
        c6  == _chart_write_num_fmt(c5)
        c7  == _chart_write_tick_lbl_pos(c6)
        c8  == _chart_write_cross_axis(c7, c7.axis_id_1)
        c9  == _chart_write_crosses(c8)
        c10 == _chart_write_cross_between(c9)
    IN  [c10 EXCEPT !.file = lxw_xml_end_tag(@, "c:valAx")]

_chart_write_bar_dir(c) ==
    [c EXCEPT !.file = lxw_xml_empty_tag(@, "c:barDir", ValAttribute("bar"))]

\* STAILQ_FOREACH(series, self->series, list_pointers) _chart_write_ser(self, series);
RECURSIVE _chart_write_each_ser(_, _)
_chart_write_each_ser(c, list) ==
    IF list = <<>> THEN c
    ELSE _chart_write_each_ser(_chart_write_ser(c, Head(list)), Tail(list))

\* A slip of _chart_write_bar_chart: the axis ids are written before the series.
_chart_write_bar_chart_ids_first(c) ==
    LET c1 == [c EXCEPT !.file = lxw_xml_start_tag(@, "c:barChart", NoAttributes)]
        c2 == _chart_write_bar_dir(c1)
        c3 == _chart_write_grouping(c2)
        c4 == _chart_write_axis_ids(c3)
        c5 == _chart_write_each_ser(c4, c4.series)
    IN  [c5 EXCEPT !.file = lxw_xml_end_tag(@, "c:barChart")]

\* Write the <c:barChart> element.
_chart_write_bar_chart(c) ==
    LET c1 == [c EXCEPT !.file = lxw_xml_start_tag(@, "c:barChart", NoAttributes)]
        c2 == _chart_write_bar_dir(c1)
        c3 == _chart_write_grouping(c2)
        c4 == _chart_write_each_ser(c3, c3.series)
        c5 == _chart_write_axis_ids(c4)
    IN  [c5 EXCEPT !.file = lxw_xml_end_tag(@, "c:barChart")]

_chart_write_chart_type(c) == _chart_write_bar_chart(c)

\* Write the <c:plotArea> element: it is left open.
_chart_write_plot_area(c) ==
    LET c1 == [c EXCEPT !.file = lxw_xml_start_tag(@, "c:plotArea", NoAttributes)]
        c2 == _chart_write_layout(c1)
    IN  _chart_write_chart_type(c2)

\* A slip of _chart_write_chart: the plotArea element, which _chart_write_plot_area
\* leaves open, is not closed.
_chart_write_chart_plot_area_open(c) ==
    LET c1 == [c EXCEPT !.file = lxw_xml_start_tag(@, "c:chart", NoAttributes)]
        c2 == _chart_write_plot_area(c1)
        c3 == _chart_write_cat_axis(c2)
        c4 == _chart_write_val_ax(c3)
        c6 == _chart_write_legend(c4)
        c7 == _chart_write_plot_vis_only(c6)
    IN  [c7 EXCEPT !.file = lxw_xml_end_tag(@, "c:chart")]

\* Write the <c:chart> element.
_chart_write_chart(c) ==
    LET c1 == [c EXCEPT !.file = lxw_xml_start_tag(@, "c:chart", NoAttributes)]
        c2 == _chart_write_plot_area(c1)
        c3 == _chart_write_cat_axis(c2)
        c4 == _chart_write_val_ax(c3)
        c5 == [c4 EXCEPT !.file = lxw_xml_end_tag(@, "c:plotArea")]
        c6 == _chart_write_legend(c5)
        c7 == _chart_write_plot_vis_only(c6)
    IN  [c7 EXCEPT !.file = lxw_xml_end_tag(@, "c:chart")]

\* Assemble and write the XML file.
lxw_chart_assemble_xml_file(c) ==
    LET c1 == _chart_xml_declaration(c)
        c2 == _chart_write_chart_space(c1)
        c3 == _chart_write_lang(c2)
        c4 == _chart_write_chart(c3)
        c5 == _chart_write_print_settings(c4)
    IN  [c5 EXCEPT !.file = lxw_xml_end_tag(@, "c:chartSpace")]

\* --------------------------------------------------- memory and the list
\* free(p) of a string: free(NULL) does nothing.
free_str(h, p) == IF p = NULL THEN h ELSE [h EXCEPT !.str = @ - 1]

\* lxw_strdup: a copy of str in a new allocation, NULL when str is NULL or the
\* allocation fails.
lxw_strdup(str, fails) == IF str = NULL \/ fails THEN NULL ELSE str

\* The two insertions of a singly-linked tail queue.
STAILQ_INSERT_HEAD(list, node) == <<node>> \o list

STAILQ_INSERT_TAIL(list, node) == Append(list, node)

\* The chart as calloc leaves it, before chart->series is allocated.
ZeroChart == [id |-> 0, axis_id_1 |-> 0, axis_id_2 |-> 0, series_index |-> 0,
              series_alloc |-> FALSE, series |-> <<>>, file |-> <<>>]

\* while (!STAILQ_EMPTY(chart->series)): the head is unlinked and its two strings
\* are freed.
RECURSIVE lxw_chart_free_series(_, _)
lxw_chart_free_series(list, h) ==
    IF list = <<>> THEN h
    ELSE lxw_chart_free_series(Tail(list),
             free_str(free_str(h, Head(list).range), Head(list).sheetname))

\* Free a chart object: p is the pointer, c the chart it points to.
lxw_chart_free(p, c, h) ==
    IF p = NULL THEN [self |-> p, chart |-> c, heap |-> h]
    ELSE LET h1 == IF c.series_alloc
                   THEN [lxw_chart_free_series(c.series, h) EXCEPT !.list = @ - 1]
                   ELSE h
         IN  [self  |-> "freed",
              chart |-> IF c.series_alloc THEN [c EXCEPT !.series = <<>>] ELSE c,
              heap  |-> [h1 EXCEPT !.chart = @ - 1]]

\* Create a new chart object.
lxw_chart_new(h, mem) ==
    IF mem.chart
    THEN [self |-> lxw_chart_free(NULL, ZeroChart, h).self, chart |-> ZeroChart, heap |-> h]
    ELSE LET h1 == [h EXCEPT !.chart = @ + 1]
         IN  IF mem.list
             THEN [self  |-> NULL, chart |-> ZeroChart,
                   heap  |-> lxw_chart_free("live", ZeroChart, h1).heap]
             ELSE [self  |-> "live",
                   chart |-> [ZeroChart EXCEPT !.series_alloc = TRUE],
                   heap  |-> [h1 EXCEPT !.list = @ + 1]]

\* A slip of chart_add_series: the node is allocated before the descriptor is
\* looked at, and is lost when the descriptor is null.
chart_add_series_alloc_first(c, h, user_series, mem) ==
    IF mem.node THEN [ret |-> "-1", chart |-> c, heap |-> h]
    ELSE IF user_series.ptr = NULL
    THEN [ret |-> "-1", chart |-> c, heap |-> [h EXCEPT !.node = @ + 1]]
    ELSE LET range == lxw_strdup(user_series.range, mem.range)
             sheetname == lxw_strdup(user_series.sheetname, mem.sheetname)
             node == [range |-> range, sheetname |-> sheetname]
             n == (IF range = NULL THEN 0 ELSE 1) + (IF sheetname = NULL THEN 0 ELSE 1)
         IN  [ret   |-> "0",
              chart |-> [c EXCEPT !.series = STAILQ_INSERT_TAIL(@, node)],
              heap  |-> [h EXCEPT !.node = @ + 1, !.str = @ + n]]

\* A slip of chart_add_series: the node is inserted at the head of the list.
chart_add_series_insert_head(c, h, user_series, mem) ==
    IF user_series.ptr = NULL THEN [ret |-> "-1", chart |-> c, heap |-> h]
    ELSE IF mem.node THEN [ret |-> "-1", chart |-> c, heap |-> h]
    ELSE LET range == lxw_strdup(user_series.range, mem.range)
             sheetname == lxw_strdup(user_series.sheetname, mem.sheetname)
             node == [range |-> range, sheetname |-> sheetname]
             n == (IF range = NULL THEN 0 ELSE 1) + (IF sheetname = NULL THEN 0 ELSE 1)
         IN  [ret   |-> "0",
              chart |-> [c EXCEPT !.series = STAILQ_INSERT_HEAD(@, node)],
              heap  |-> [h EXCEPT !.node = @ + 1, !.str = @ + n]]

\* Add a series to the chart.
chart_add_series(c, h, user_series, mem) ==
    IF user_series.ptr = NULL THEN [ret |-> "-1", chart |-> c, heap |-> h]
    ELSE IF mem.node THEN [ret |-> "-1", chart |-> c, heap |-> h]
    ELSE LET range == lxw_strdup(user_series.range, mem.range)
             sheetname == lxw_strdup(user_series.sheetname, mem.sheetname)
             node == [range |-> range, sheetname |-> sheetname]
             n == (IF range = NULL THEN 0 ELSE 1) + (IF sheetname = NULL THEN 0 ELSE 1)
         IN  [ret   |-> "0",
              chart |-> [c EXCEPT !.series = STAILQ_INSERT_TAIL(@, node)],
              heap  |-> [h EXCEPT !.node = @ + 1, !.str = @ + n]]

\* ------------------------------------------------------------ the state
\* The chart object the pointer self points to.
Chart == [id |-> id, axis_id_1 |-> axis_id_1, axis_id_2 |-> axis_id_2,
          series_index |-> series_index, series_alloc |-> TRUE,
          series |-> series, file |-> file]

\* The fields of the chart object become those of c.
SetChart(c) ==
    /\ id' = c.id
    /\ axis_id_1' = c.axis_id_1
    /\ axis_id_2' = c.axis_id_2
    /\ series_index' = c.series_index
    /\ series' = c.series
    /\ file' = c.file

Call(op, arg, mem, ret) == [op |-> op, null_arg |-> arg, mem |-> mem, ret |-> ret]

\* Before lxw_chart_new: no chart, nothing allocated.
Init ==
    /\ self = NULL
    /\ id = ZeroChart.id
    /\ axis_id_1 = ZeroChart.axis_id_1
    /\ axis_id_2 = ZeroChart.axis_id_2
    /\ series_index = ZeroChart.series_index
    /\ series = ZeroChart.series
    /\ file = ZeroChart.file
    /\ heap = EmptyHeap
    /\ last = Call("none", FALSE, NoFailure, "void")
    /\ passes = 0
    /\ added = <<>>
    /\ failures = 0
    /\ id_first = 0

\* ----------------------------------------------------------- operations
\* chart = lxw_chart_new(): either calloc may fail.
New ==
    /\ self = NULL
    /\ \E mem \in NewOutcomes :
          LET r == lxw_chart_new(heap, mem)
              failed == IF mem.chart \/ mem.list THEN 1 ELSE 0
          IN  /\ failures + failed <= MaxFailures
              /\ failures' = failures + failed
              /\ self' = r.self
              /\ SetChart(r.chart)
              /\ heap' = r.heap
              /\ last' = Call("lxw_chart_new", FALSE, NoFailure,
                              IF r.self = NULL THEN "NULL" ELSE "chart")
    /\ UNCHANGED <<passes, added, id_first>>

\* The owner of the chart assigns it an id: chart->id = n.
SetId ==
    /\ self = "live"
    /\ \E n \in 0..MaxId :
          /\ n # id
          /\ id' = n
    /\ last' = Call("set_id", FALSE, NoFailure, "void")
    /\ UNCHANGED <<self, axis_id_1, axis_id_2, series_index, series, file, heap,
                   passes, added, failures, id_first>>

\* chart_add_series(chart, user_series), with the outcome of its allocations.
AddSeries ==
    /\ self = "live"
    /\ \E user_series \in UserSeries, mem \in MemOutcomes :
          /\ user_series.ptr = NULL \/ Len(series) < MaxSeries
          /\ user_series.ptr = NULL => mem = NoFailure
          /\ LET r == chart_add_series(Chart, heap, user_series, mem)
                 failed == IF mem.node \/ mem.range \/ mem.sheetname THEN 1 ELSE 0
             IN  /\ failures + failed <= MaxFailures
                 /\ failures' = failures + failed
                 /\ SetChart(r.chart)
                 /\ heap' = r.heap
                 /\ last' = Call("chart_add_series", user_series.ptr = NULL, mem, r.ret)
                 /\ added' = IF r.ret = "0"
                             THEN Append(added, [range |-> user_series.range,
                                                 sheetname |-> user_series.sheetname,
                                                 mem |-> mem])
                             ELSE added
    /\ UNCHANGED <<self, passes, id_first>>

\* lxw_chart_assemble_xml_file(chart), the caller having set chart->file to an
\* empty file.
Assemble ==
    /\ self = "live"
    /\ passes < MaxPasses
    /\ SetChart(lxw_chart_assemble_xml_file([Chart EXCEPT !.file = <<>>]))
    /\ last' = Call("lxw_chart_assemble_xml_file", FALSE, NoFailure, "void")
    /\ passes' = passes + 1
    /\ id_first' = IF passes = 0 THEN id ELSE id_first
    /\ UNCHANGED <<self, heap, added, failures>>

\* lxw_chart_free(chart), on a chart or on a null pointer.
Free ==
    /\ self \in {NULL, "live"}
    /\ LET r == lxw_chart_free(self, Chart, heap)
       IN  /\ self' = r.self
           /\ SetChart(r.chart)
           /\ heap' = r.heap
    /\ last' = Call("lxw_chart_free", self = NULL, NoFailure, "void")
    /\ UNCHANGED <<passes, added, failures, id_first>>

Next == New \/ SetId \/ AddSeries \/ Assemble \/ Free

Spec == Init /\ [][Next]_vars

\* ------------------------------------------------ reading the output file
\* The val attribute of every `tag` element of f, in the order written.
IsTag(e, tag) == e.k \in {"start", "empty", "data"} /\ e.tag = tag
ValsOf(f, tag) ==
    LET es == SelectSeq(f, LAMBDA e : IsTag(e, tag))
    IN  [i \in 1..Len(es) |-> es[i].attrs[1][2]]
\* The text of every `tag` data element of f.
DataOf(f, tag) ==
    LET es == SelectSeq(f, LAMBDA e : e.k = "data" /\ e.tag = tag)
    IN  [i \in 1..Len(es) |-> es[i].data]
\* The events of f inside its first `tag` element.
Inside(f, tag) ==
    LET from == CHOOSE i \in 1..Len(f) :
                    /\ f[i].k = "start" /\ f[i].tag = tag
                    /\ \A j \in 1..(i - 1) : ~(f[j].k = "start" /\ f[j].tag = tag)
        to   == CHOOSE i \in from..Len(f) :
                    /\ f[i].k = "end" /\ f[i].tag = tag
                    /\ \A j \in from..(i - 1) : ~(f[j].k = "end" /\ f[j].tag = tag)
    IN  SubSeq(f, from + 1, to - 1)
\* 0, 1, .., n - 1 as the decimal strings the file holds.
Counting(n) == [i \in 1..n |-> ToString(i - 1)]
\* No series of the list has a null range or sheet name.
NoNullStrings(list) ==
    \A i \in 1..Len(list) : list[i].range # NULL /\ list[i].sheetname # NULL
\* An allocation of the call failed.
AllocFailed(mem) == mem.node \/ mem.range \/ mem.sheetname
\* The state right after an assembly pass.
Assembled == last.op = "lxw_chart_assemble_xml_file"

\* C1: two assembly passes in a row over the same chart write the same file, and
\* every pass numbers the series 0, 1, .., N - 1 (idx and order) in list order.
C1_Reassembly ==
    [][(passes' = passes + 1) =>
          /\ ValsOf(file', "c:idx") = Counting(Len(series))
          /\ ValsOf(file', "c:order") = Counting(Len(series))
          /\ (Assembled => file' = file)]_vars

\* C4: once lxw_chart_free has run on a chart, nothing that lxw_chart_new or
\* chart_add_series allocated for it is outstanding; lxw_chart_free(NULL) does
\* nothing.
C4_FreeReleasesAll ==
    /\ self = "freed" => heap = EmptyHeap
    /\ self = NULL => heap = EmptyHeap

\* C3: a chart_add_series call in which an allocation fails returns -1 and adds
\* nothing, and no series of the list ever has a null range or sheet name.
C3_AllocFailure ==
    /\ NoNullStrings(series)
    /\ (last.op = "chart_add_series" /\ AllocFailed(last.mem)) => last.ret = "-1"

\* A call that returned 0 with every allocation made.
Successful(a) == ~AllocFailed(a.mem)

C5_NullDescriptor ==
    [][(last'.op = "chart_add_series" /\ last'.null_arg) =>
          /\ last'.ret = "-1"
          /\ UNCHANGED <<self, id, axis_id_1, axis_id_2, series_index, series,
                         file, heap, added>>]_vars
C5_Witness ==
    /\ last.op = "chart_add_series" /\ last.null_arg /\ last.ret = "-1"
    /\ Len(series) >= 1

\* C6: in a written file the axId pair of the bar chart, the axes' own axId and the
\* crossAx references agree with axis_id_1 and axis_id_2, each axis crosses the
\* other, and none of them is written from an id that is still 0 (unset).
C6_AxisReferences ==
    file # <<>> =>
        LET bar == ValsOf(Inside(file, "c:barChart"), "c:axId")
            cat == Inside(file, "c:catAx")
            val == Inside(file, "c:valAx")
        IN  /\ bar = <<ToString(axis_id_1), ToString(axis_id_2)>>
            /\ ValsOf(cat, "c:axId") = <<ToString(axis_id_1)>>
            /\ ValsOf(val, "c:axId") = <<ToString(axis_id_2)>>
            /\ ValsOf(cat, "c:crossAx") = ValsOf(val, "c:axId")
            /\ ValsOf(val, "c:crossAx") = ValsOf(cat, "c:axId")
            /\ \A v \in {bar[1], bar[2]} : v # ToString(0)
            /\ Len(ValsOf(file, "c:axId")) = 4 /\ Len(ValsOf(file, "c:crossAx")) = 2
C6_Witness == Assembled /\ passes = 1 /\ Len(series) >= 1 /\ axis_id_1 # 0

\* The axis id the allocation formula gives for chart id n, as written.
AxisIdFor(n) == ToString(CHART_AXIS_BASE + n + 1)
\* The axId pair of the bar chart in the file.
EmittedAxisIds(f) == ValsOf(Inside(f, "c:barChart"), "c:axId")

\* C7 as stated: every assembly writes the pair the formula gives for chart->id at
\* the time of that assembly.
C7_Original ==
    Assembled => EmittedAxisIds(file) = <<AxisIdFor(id), AxisIdFor(id)>>

\* C7 amended: every assembly writes the pair the formula gives for chart->id at
\* the time of the first assembly, when the pair was computed.
C7_AxisIdsFromFirstId ==
    file # <<>> => EmittedAxisIds(file) = <<AxisIdFor(id_first), AxisIdFor(id_first)>>
C7_Witness ==
    Assembled /\ passes >= 2 /\ id # id_first /\ id_first # 0 /\ Len(series) >= 1

\* The file as the list of the elements it opens, in order, with the ends of
\* barChart, plotArea, chart and chartSpace ("/" and the tag); c:orientation, the
\* content of c:scaling, is left out.
OutlineEnds == {"c:barChart", "c:plotArea", "c:chart", "c:chartSpace"}
Label(e) ==
    IF e.k = "end" THEN (IF e.tag \in OutlineEnds THEN "/" \o e.tag ELSE "")
    ELSE IF e.tag = "c:orientation" THEN ""
    ELSE e.tag
Outline(f) ==
    LET labels == [i \in 1..Len(f) |-> Label(f[i])]
    IN  SelectSeq(labels, LAMBDA l : l # "")
\* The outline of n ser blocks.
RECURSIVE SerOutline(_)
SerOutline(n) ==
    IF n = 0 THEN <<>>
    ELSE <<"c:ser", "c:idx", "c:order", "c:val", "c:numRef", "c:f">> \o SerOutline(n - 1)
\* The order of the tags of a chart of n series.
ExpectedOutline(n) ==
    <<"xml", "c:chartSpace", "c:lang", "c:chart", "c:plotArea", "c:layout",
      "c:barChart", "c:barDir", "c:grouping">>
    \o SerOutline(n)
    \o <<"c:axId", "c:axId", "/c:barChart",
         "c:catAx", "c:axId", "c:scaling", "c:axPos", "c:tickLblPos", "c:crossAx",
         "c:crosses", "c:auto", "c:lblAlgn", "c:lblOffset",
         "c:valAx", "c:axId", "c:scaling", "c:axPos", "c:majorGridlines", "c:numFmt",
         "c:tickLblPos", "c:crossAx", "c:crosses", "c:crossBetween",
         "/c:plotArea",
         "c:legend", "c:legendPos", "c:layout",
         "c:plotVisOnly", "/c:chart",
         "c:printSettings", "c:headerFooter", "c:pageMargins", "c:pageSetup",
         "/c:chartSpace">>

\* C8: every assembly pass over a chart of N series writes the tags in the order
\* of ExpectedOutline(N), the category axId before the value axId.
C8_TagOrder ==
    Assembled =>
        /\ Outline(file) = ExpectedOutline(Len(series))
        /\ ValsOf(Inside(file, "c:barChart"), "c:axId")
               = ValsOf(Inside(file, "c:catAx"), "c:axId")
                 \o ValsOf(Inside(file, "c:valAx"), "c:axId")
C8_Witness == Assembled /\ Len(series) = 2 /\ passes = 2

\* C9: the axis ids are set by the first assembly pass and, once set, no step
\* changes them: not chart_add_series, not a new chart->id, not a later pass.
C9_AxisIdsStable ==
    [][/\ passes' >= 1 => (axis_id_1' # 0 /\ axis_id_2' # 0)
       /\ axis_id_1 # 0 => (axis_id_1' = axis_id_1 /\ axis_id_2' = axis_id_2)]_vars
C9_Witness ==
    /\ Assembled /\ passes >= 2 /\ id # id_first
    /\ axis_id_1 # 0 /\ Len(added) >= 1

\* The tags of f[i..] nest well under the open tags `open` (innermost first), and
\* none is left open at the end.
RECURSIVE Nests(_, _, _)
Nests(f, i, open) ==
    IF i > Len(f) THEN open = <<>>
    ELSE IF f[i].k = "start" THEN Nests(f, i + 1, <<f[i].tag>> \o open)
    ELSE IF f[i].k = "end"
         THEN /\ open # <<>>
              /\ Head(open) = f[i].tag
              /\ Nests(f, i + 1, Tail(open))
    ELSE Nests(f, i + 1, open)

\* C10: the tags of a written file are well nested: every end tag closes the
\* innermost open tag, which has its name, and no tag is left open.
C10_WellNested == file # <<>> => Nests(file, 1, <<>>)
C10_Witness ==
    /\ Assembled /\ Len(series) >= 1
    /\ \E i \in 1..Len(file) : file[i].k = "end" /\ file[i].tag = "c:plotArea"

====
